---------------------------- MODULE Spec2Model ----------------------------
(***************************************************************************)
(* State-machine model of the persistence-backed CRUD services of the      *)
(* repository:                                                             *)
(*   - task_bank: models/account.py, services/bank_service.py              *)
(*   - task-management-system1 (JSON variant): models/task.py,             *)
(*     services/task_service.py                                            *)
(*   - task-management-system (SQLite variant): models/task.py,            *)
(*     services/task_service.py                                            *)
(*   - pytest-1: python/bank_account.py                                    *)
(* The programs are separate: in every behaviour one of them runs and the  *)
(* others are idle (their observation has op "none").                      *)
(* Monetary amounts are Python floats in the source; the model uses        *)
(* integers (every amount of the model is exactly representable).          *)
(* A Python exception is modelled by the field "raised" of an operation's  *)
(* result: "none", "ValueError" or "OSError".                              *)
(***************************************************************************)
EXTENDS Integers, Sequences, FiniteSets, TLC

VARIABLES
    accounts,   \* BankService.accounts: account number -> Account
    bankFile,   \* content of the file at BankService.data_source
    blast,      \* observation of the last BankService call
    scen,       \* observer: progress along the Alice/Bob scenario
    tasks,      \* TaskService.tasks: list of Task, in list order
    taskFile,   \* content of the file at TaskService.data_source
    dataSource, \* TaskService.data_source
    tlast,      \* observation of the last TaskService call
    thist,      \* observer: ids handed out / deleted on this instance
    db,         \* SQLite TaskService: db_path, the database at it, the clock
    slast,      \* observation of the last call of the SQLite TaskService
    bankAccount,\* pytest BankAccount: balance and transactions
    alast       \* observation of the last BankAccount call

bankVars == <<accounts, bankFile, blast, scen>>
taskVars == <<tasks, taskFile, dataSource, tlast, thist>>
sqlVars == <<db, slast>>
acctVars == <<bankAccount, alast>>
vars == <<accounts, bankFile, blast, scen, tasks, taskFile, dataSource, tlast, thist,
          db, slast, bankAccount, alast>>

----------------------------------------------------------------------------
(* Bounds of the model *)

MaxAccounts == 2
MaxBalance == 150
MaxTasks == 2
MaxTaskId == 3
MaxTransactions == 3
MaxRows == 2
MaxClock == 2

(* Inputs *)
Amounts == {-50, 0, 50, 100, 200}
Holders == {"Alice", "Bob"}
(* What the file system does with a write: it is accepted, or open fails:  *)
(* the file keeps its content and the error is raised inside the save.     *)
WriteOutcomes == {"ok", "open_fails"}

----------------------------------------------------------------------------
(* models/account.py *)

Account(account_number, account_holder, balance) ==
    [account_number |-> account_number,
     account_holder |-> account_holder,
     balance |-> balance]

NoAccount == Account("", "", 0)

Account_deposit_unchecked(acc, amount) ==
    [raised |-> "none", acc |-> [acc EXCEPT !.balance = @ + amount]]

Account_deposit(acc, amount) ==
    IF amount <= 0
    THEN [raised |-> "ValueError", acc |-> acc]
    ELSE [raised |-> "none", acc |-> [acc EXCEPT !.balance = @ + amount]]

Account_withdraw_strict(acc, amount) ==
    IF amount <= 0
    THEN [raised |-> "ValueError", acc |-> acc]
    ELSE IF amount >= acc.balance
    THEN [raised |-> "ValueError", acc |-> acc]
    ELSE [raised |-> "none", acc |-> [acc EXCEPT !.balance = @ - amount]]

(* withdraw that does not compare the amount with the balance *)
Account_withdraw_overdraft(acc, amount) ==
    IF amount <= 0
    THEN [raised |-> "ValueError", acc |-> acc]
    ELSE [raised |-> "none", acc |-> [acc EXCEPT !.balance = @ - amount]]

Account_withdraw(acc, amount) ==
    IF amount <= 0
    THEN [raised |-> "ValueError", acc |-> acc]
    ELSE IF amount > acc.balance
    THEN [raised |-> "ValueError", acc |-> acc]
    ELSE [raised |-> "none", acc |-> [acc EXCEPT !.balance = @ - amount]]

Account_to_dict(acc) ==
    [account_number |-> acc.account_number,
     account_holder |-> acc.account_holder,
     balance |-> acc.balance]

(* from_dict that leaves the balance at the constructor's default *)
Account_from_dict_default_balance(data) ==
    Account(data.account_number, data.account_holder, 0)

Account_from_dict(data) ==
    Account(data.account_number, data.account_holder, data.balance)

----------------------------------------------------------------------------
(* services/bank_service.py *)

EmptyMap == [k \in {} |-> NoAccount]

Put(m, k, v) == [x \in (DOMAIN m) \cup {k} |-> IF x = k THEN v ELSE m[x]]

MissingFile == [kind |-> "missing", data |-> EmptyMap]
MalformedFile == [kind |-> "malformed", data |-> EmptyMap]
JsonFile(d) == [kind |-> "json", data |-> d]

(* What open(data_source, 'r') and json.load raise on the file *)
ReadError(file) ==
    CASE file.kind = "missing" -> "FileNotFoundError"
      [] file.kind = "malformed" -> "JSONDecodeError"
      [] OTHER -> "none"

(* load_accounts that handles the missing file only *)
load_accounts_missing_only(file) ==
    LET err == ReadError(file)
    IN  IF err = "none"
        THEN [raised |-> "none",
              accounts |-> [k \in DOMAIN file.data |-> Account_from_dict(file.data[k])]]
        ELSE IF err = "FileNotFoundError"
        THEN [raised |-> "none", accounts |-> EmptyMap]
        ELSE [raised |-> err, accounts |-> EmptyMap]

(* load_accounts, called on the empty map of __init__: what it raises and   *)
(* the map it leaves                                                        *)
load_accounts(file) ==
    LET err == ReadError(file)
    IN  IF err = "none"
        THEN [raised |-> "none",
              accounts |-> [k \in DOMAIN file.data |-> Account_from_dict(file.data[k])]]
        ELSE IF err = "FileNotFoundError"
        THEN [raised |-> "none", accounts |-> EmptyMap]
        ELSE IF err = "JSONDecodeError"
        THEN [raised |-> "none", accounts |-> EmptyMap]
        ELSE [raised |-> "none", accounts |-> EmptyMap]

(* save_accounts that logs the exception of the write and returns *)
save_accounts_swallow(accts, file, w) ==
    LET accounts_data == [k \in DOMAIN accts |-> Account_to_dict(accts[k])]
    IN  IF w = "ok"
        THEN [raised |-> "none", file |-> JsonFile(accounts_data)]
        ELSE [raised |-> "none", file |-> file]

(* save_accounts: w is what the file system does with the write *)
save_accounts(accts, file, w) ==
    LET accounts_data == [k \in DOMAIN accts |-> Account_to_dict(accts[k])]
    IN  IF w = "ok"
        THEN [raised |-> "none", file |-> JsonFile(accounts_data)]
        ELSE [raised |-> "OSError", file |-> file]

RECURSIVE Zeros(_)
Zeros(n) == IF n <= 0 THEN "" ELSE "0" \o Zeros(n - 1)

(* f"ACC{n:04}" *)
FormatAccountNumber(n) ==
    LET s == ToString(n) IN "ACC" \o Zeros(4 - Len(s)) \o s

generate_account_number_first(accts) ==
    FormatAccountNumber(1)

generate_account_number(accts) ==
    FormatAccountNumber(Cardinality(DOMAIN accts) + 1)

get_account(accts, account_number) ==
    IF account_number \in DOMAIN accts
    THEN [none |-> FALSE, value |-> accts[account_number]]
    ELSE [none |-> TRUE, value |-> NoAccount]

ReturnsNone == [none |-> TRUE, value |-> NoAccount]

(* Result of one BankService call *)
Outcome(accts, file, raised, ret, calls) ==
    [accounts |-> accts, file |-> file, raised |-> raised, ret |-> ret,
     calls |-> calls]

(* create_account that also rejects an initial balance of zero *)
create_account_positive_only(accts, file, account_holder, initial_balance, w) ==
    IF initial_balance <= 0
    THEN Outcome(accts, file, "ValueError", ReturnsNone, << >>)
    ELSE LET account_number == generate_account_number(accts)
             new_account == Account(account_number, account_holder, initial_balance)
             accts1 == Put(accts, account_number, new_account)
             sv == save_accounts(accts1, file, w)
         IN  IF sv.raised # "none"
             THEN Outcome(accts1, sv.file, sv.raised, ReturnsNone,
                          <<"_generate_account_number", "save_accounts">>)
             ELSE Outcome(accts1, sv.file, "none",
                          [none |-> FALSE, value |-> new_account],
                          <<"_generate_account_number", "save_accounts">>)

create_account(accts, file, account_holder, initial_balance, w) ==
    IF initial_balance < 0
    THEN Outcome(accts, file, "ValueError", ReturnsNone, << >>)
    ELSE LET account_number == generate_account_number(accts)
             new_account == Account(account_number, account_holder, initial_balance)
             accts1 == Put(accts, account_number, new_account)
             sv == save_accounts(accts1, file, w)
         IN  IF sv.raised # "none"
             THEN Outcome(accts1, sv.file, sv.raised, ReturnsNone,
                          <<"_generate_account_number", "save_accounts">>)
             ELSE Outcome(accts1, sv.file, "none",
                          [none |-> FALSE, value |-> new_account],
                          <<"_generate_account_number", "save_accounts">>)

(* deposit that credits every account of the map *)
deposit_to_all(accts, file, account_number, amount, w) ==
    LET account == get_account(accts, account_number)
    IN  IF account.none
        THEN Outcome(accts, file, "ValueError", ReturnsNone, << >>)
        ELSE LET dp == Account_deposit(account.value, amount)
             IN  IF dp.raised # "none"
                 THEN Outcome(accts, file, dp.raised, ReturnsNone, <<"Account.deposit">>)
                 ELSE LET accts1 == [k \in DOMAIN accts |->
                                        Account_deposit(accts[k], amount).acc]
                          sv == save_accounts(accts1, file, w)
                      IN  Outcome(accts1, sv.file, sv.raised, ReturnsNone,
                                  <<"Account.deposit", "save_accounts">>)

(* deposit that does not save *)
deposit_no_save(accts, file, account_number, amount, w) ==
    LET account == get_account(accts, account_number)
    IN  IF account.none
        THEN Outcome(accts, file, "ValueError", ReturnsNone, << >>)
        ELSE LET dp == Account_deposit(account.value, amount)
             IN  IF dp.raised # "none"
                 THEN Outcome(accts, file, dp.raised, ReturnsNone, <<"Account.deposit">>)
                 ELSE Outcome([accts EXCEPT ![account_number] = dp.acc], file,
                              "none", ReturnsNone, <<"Account.deposit">>)

deposit(accts, file, account_number, amount, w) ==
    LET account == get_account(accts, account_number)
    IN  IF account.none
        THEN Outcome(accts, file, "ValueError", ReturnsNone, << >>)
        ELSE LET dp == Account_deposit(account.value, amount)
             IN  IF dp.raised # "none"
                 THEN Outcome(accts, file, dp.raised, ReturnsNone, <<"Account.deposit">>)
                 ELSE LET accts1 == [accts EXCEPT ![account_number] = dp.acc]
                          sv == save_accounts(accts1, file, w)
                      IN  Outcome(accts1, sv.file, sv.raised, ReturnsNone,
                                  <<"Account.deposit", "save_accounts">>)

withdraw(accts, file, account_number, amount, w) ==
    LET account == get_account(accts, account_number)
    IN  IF account.none
        THEN Outcome(accts, file, "ValueError", ReturnsNone, << >>)
        ELSE LET wd == Account_withdraw(account.value, amount)
             IN  IF wd.raised # "none"
                 THEN Outcome(accts, file, wd.raised, ReturnsNone, <<"Account.withdraw">>)
                 ELSE LET accts1 == [accts EXCEPT ![account_number] = wd.acc]
                          sv == save_accounts(accts1, file, w)
                      IN  Outcome(accts1, sv.file, sv.raised, ReturnsNone,
                                  <<"Account.withdraw", "save_accounts">>)

(* transfer with the credit made before the debit *)
transfer_credit_first(accts, file, from_account_number, to_account_number, amount, w) ==
    LET from_account == get_account(accts, from_account_number)
        to_account == get_account(accts, to_account_number)
    IN  IF from_account.none \/ to_account.none
        THEN Outcome(accts, file, "ValueError", ReturnsNone, << >>)
        ELSE LET dp == Account_deposit(to_account.value, amount)
             IN  IF dp.raised # "none"
                 THEN Outcome(accts, file, dp.raised, ReturnsNone, <<"Account.deposit">>)
                 ELSE LET accts1 == [accts EXCEPT ![to_account_number] = dp.acc]
                          wd == Account_withdraw(accts1[from_account_number], amount)
                      IN  IF wd.raised # "none"
                          THEN Outcome(accts1, file, wd.raised, ReturnsNone,
                                       <<"Account.deposit", "Account.withdraw">>)
                          ELSE LET accts2 == [accts1 EXCEPT ![from_account_number] = wd.acc]
                                   sv == save_accounts(accts2, file, w)
                               IN  Outcome(accts2, sv.file, sv.raised, ReturnsNone,
                                           <<"Account.deposit", "Account.withdraw",
                                             "save_accounts">>)

(* transfer that computes both new balances from the accounts as they were *)
(* before the call                                                         *)
transfer_from_snapshot(accts, file, from_account_number, to_account_number, amount, w) ==
    LET from_account == get_account(accts, from_account_number)
        to_account == get_account(accts, to_account_number)
    IN  IF from_account.none \/ to_account.none
        THEN Outcome(accts, file, "ValueError", ReturnsNone, << >>)
        ELSE LET wd == Account_withdraw(from_account.value, amount)
                 dp == Account_deposit(to_account.value, amount)
             IN  IF wd.raised # "none"
                 THEN Outcome(accts, file, wd.raised, ReturnsNone, <<"Account.withdraw">>)
                 ELSE LET accts1 == [accts EXCEPT ![from_account_number] = wd.acc]
                          accts2 == [accts1 EXCEPT ![to_account_number] = dp.acc]
                          sv == save_accounts(accts2, file, w)
                      IN  Outcome(accts2, sv.file, sv.raised, ReturnsNone,
                                  <<"Account.withdraw", "Account.deposit",
                                    "save_accounts">>)

transfer(accts, file, from_account_number, to_account_number, amount, w) ==
    LET from_account == get_account(accts, from_account_number)
        to_account == get_account(accts, to_account_number)
    IN  IF from_account.none \/ to_account.none
        THEN Outcome(accts, file, "ValueError", ReturnsNone, << >>)
        ELSE LET wd == Account_withdraw(from_account.value, amount)
             IN  IF wd.raised # "none"
                 THEN Outcome(accts, file, wd.raised, ReturnsNone, <<"Account.withdraw">>)
                 ELSE LET accts1 == [accts EXCEPT ![from_account_number] = wd.acc]
                          dp == Account_deposit(accts1[to_account_number], amount)
                      IN  IF dp.raised # "none"
                          THEN Outcome(accts1, file, dp.raised, ReturnsNone,
                                       <<"Account.withdraw", "Account.deposit">>)
                          ELSE LET accts2 == [accts1 EXCEPT ![to_account_number] = dp.acc]
                                   sv == save_accounts(accts2, file, w)
                               IN  Outcome(accts2, sv.file, sv.raised, ReturnsNone,
                                           <<"Account.withdraw", "Account.deposit",
                                             "save_accounts">>)


----------------------------------------------------------------------------
(* list_all_accounts: the accounts held, without the order of the list *)
list_all_accounts(accts) ==
    [none |-> FALSE, value |-> NoAccount, all |-> {accts[k] : k \in DOMAIN accts}]

----------------------------------------------------------------------------
(* Observation of a BankService call: its arguments, what it raised and     *)
(* returned, the inner calls it made, the accounts and the file before the  *)
(* call, and what the file system did with the write of a call that reached *)
(* save_accounts.                                                           *)

Observed(op, acct, to, amount, holder, w, out, before, fileBefore) ==
    [op |-> op, acct |-> acct, to |-> to, amount |-> amount, holder |-> holder,
     raised |-> out.raised, ret |-> out.ret, calls |-> out.calls,
     before |-> before, fileBefore |-> fileBefore, write |-> w]

NoCall(ld, file) ==
    [op |-> "__init__", acct |-> "", to |-> "", amount |-> 0, holder |-> "",
     raised |-> ld.raised, ret |-> ReturnsNone, calls |-> << >>,
     before |-> ld.accounts, fileBefore |-> file, write |-> "none"]

(* Observer of the scenario                                                 *)
(*   create_account("Alice", 100); deposit(Alice, 50); withdraw(Alice, 200);*)
(*   create_account("Bob", 0); transfer(Alice, Bob, 50)                     *)
(* on a service constructed empty, with a file system that accepts writes:  *)
(* step counts the calls of the scenario made so far, in order.             *)
ScenStart(accts) ==
    [on |-> accts = EmptyMap, step |-> 0, alice |-> "", bob |-> ""]

ScenOff == [on |-> FALSE, step |-> 0, alice |-> "", bob |-> ""]

ScenStep(s, op, acct, to, amount, holder, w, out) ==
    IF ~s.on \/ w # "ok" THEN ScenOff
    ELSE CASE op = "create_account" /\ s.step = 0 /\ holder = "Alice" /\ amount = 100
                -> [s EXCEPT !.step = 1, !.alice = out.ret.value.account_number]
           [] op = "deposit" /\ s.step = 1 /\ acct = s.alice /\ amount = 50
                -> [s EXCEPT !.step = 2]
           [] op = "withdraw" /\ s.step = 2 /\ acct = s.alice /\ amount = 200
                -> [s EXCEPT !.step = 3]
           [] op = "create_account" /\ s.step = 3 /\ holder = "Bob" /\ amount = 0
                -> [s EXCEPT !.step = 4, !.bob = out.ret.value.account_number]
           [] op = "transfer" /\ s.step = 4 /\ acct = s.alice /\ to = s.bob /\ amount = 50
                -> [s EXCEPT !.step = 5]
           [] OTHER -> ScenOff

----------------------------------------------------------------------------
(* Files the service may find at data_source when it is constructed *)

InitBankFiles ==
    { MissingFile,
      MalformedFile,
      JsonFile(EmptyMap),
      JsonFile("ACC0001" :> [account_number |-> "ACC0001",
                             account_holder |-> "Alice", balance |-> 100]),
      JsonFile("ACC0002" :> [account_number |-> "ACC0002",
                             account_holder |-> "Bob", balance |-> 50]) }

(* Account numbers a caller may pass *)
AccountNumbers ==
    {FormatAccountNumber(n) : n \in 1..MaxAccounts} \cup {"ACC9999"}

(* main.py reports an exception that is not a ValueError as unexpected and  *)
(* the run ends: no further call is made on a service whose save failed,    *)
(* the next run constructs a new service on the file.                       *)
BankUsable == blast.op # "none" /\ blast.raised \in {"none", "ValueError"}

Balance(accts, k) == IF k \in DOMAIN accts THEN accts[k].balance ELSE 0

(* BankService.__init__ *)
BankService(file) ==
    /\ bankFile = file
    /\ accounts = load_accounts(file).accounts
    /\ blast = NoCall(load_accounts(file), file)
    /\ scen = ScenStart(load_accounts(file).accounts)

(* The file system's answer matters only to a call that reaches save_accounts *)
Saves(out) == \E i \in 1..Len(out.calls) : out.calls[i] = "save_accounts"

Writes(out) == IF Saves(out) THEN WriteOutcomes ELSE {"ok"}

BankApply(op, acct, to, amount, holder, w, out) ==
    /\ BankUsable
    /\ accounts' = out.accounts
    /\ bankFile' = out.file
    /\ blast' = Observed(op, acct, to, amount, holder,
                         IF Saves(out) THEN w ELSE "none", out, accounts, bankFile)
    /\ scen' = ScenStep(scen, op, acct, to, amount, holder, w, out)
    /\ UNCHANGED <<taskVars, sqlVars, acctVars>>

CreateAccountOf(holders) ==
    \E h \in holders, b \in Amounts :
        /\ b >= 0 => (Cardinality(DOMAIN accounts) < MaxAccounts /\ b <= MaxBalance)
        /\ \E w \in Writes(create_account(accounts, bankFile, h, b, "ok")) :
              BankApply("create_account", "", "", b, h, w,
                        create_account(accounts, bankFile, h, b, w))

CreateAccount == CreateAccountOf(Holders)

(* A caller that passes no name *)
CreateAccountNoHolder == CreateAccountOf({""})

Deposit ==
    \E k \in AccountNumbers, a \in Amounts :
        /\ (k \in DOMAIN accounts /\ a > 0) => Balance(accounts, k) + a <= MaxBalance
        /\ \E w \in Writes(deposit(accounts, bankFile, k, a, "ok")) :
              BankApply("deposit", k, "", a, "", w,
                        deposit(accounts, bankFile, k, a, w))

Withdraw ==
    \E k \in AccountNumbers, a \in Amounts :
        \E w \in Writes(withdraw(accounts, bankFile, k, a, "ok")) :
            BankApply("withdraw", k, "", a, "", w,
                      withdraw(accounts, bankFile, k, a, w))

Transfer ==
    \E f \in AccountNumbers, t \in AccountNumbers, a \in Amounts :
        /\ (t \in DOMAIN accounts /\ f # t /\ 0 < a /\ a <= Balance(accounts, f))
              => Balance(accounts, t) + a <= MaxBalance
        /\ \E w \in Writes(transfer(accounts, bankFile, f, t, a, "ok")) :
              BankApply("transfer", f, t, a, "", w,
                        transfer(accounts, bankFile, f, t, a, w))

GetAccount ==
    \E k \in AccountNumbers :
        /\ BankUsable
        /\ blast' = Observed("get_account", k, "", 0, "", "none",
                             Outcome(accounts, bankFile, "none",
                                     get_account(accounts, k), << >>),
                             accounts, bankFile)
        /\ UNCHANGED <<accounts, bankFile, scen>>
        /\ UNCHANGED <<taskVars, sqlVars, acctVars>>

ListAllAccounts ==
    /\ BankUsable
    /\ blast' = Observed("list_all_accounts", "", "", 0, "", "none",
                         Outcome(accounts, bankFile, "none",
                                 list_all_accounts(accounts), << >>),
                         accounts, bankFile)
    /\ UNCHANGED <<accounts, bankFile, scen>>
    /\ UNCHANGED <<taskVars, sqlVars, acctVars>>

(* A later run of the program constructs a new service on the same file *)
NewBankService ==
    /\ blast.op # "none"
    /\ accounts' = load_accounts(bankFile).accounts
    /\ blast' = NoCall(load_accounts(bankFile), bankFile)
    /\ scen' = ScenStart(load_accounts(bankFile).accounts)
    /\ UNCHANGED bankFile
    /\ UNCHANGED <<taskVars, sqlVars, acctVars>>

----------------------------------------------------------------------------
(* task-management-system1/models/task.py *)

Task(task_id, title, description, due_date, status) ==
    [task_id |-> task_id, title |-> title, description |-> description,
     due_date |-> due_date, status |-> status]

NoTask == Task(0, "", "", "", "")

Task_to_dict(task) ==
    [task_id |-> task.task_id, title |-> task.title,
     description |-> task.description, due_date |-> task.due_date,
     status |-> task.status]

Task_from_dict(data) ==
    Task(data.task_id, data.title, data.description, data.due_date, data.status)

----------------------------------------------------------------------------
(* task-management-system1/services/task_service.py *)

(* The file at data_source: its content, and whether open(..., "w") on it   *)
(* succeeds (a property of the path, fixed while the model runs).           *)
TaskFile(kind, data, writable) ==
    [kind |-> kind, data |-> data, writable |-> writable]

(* load_tasks: what it raises and the list it leaves *)
load_tasks(file) ==
    LET err == ReadError(file)
    IN  IF err = "none"
        THEN [raised |-> "none",
              tasks |-> [i \in 1..Len(file.data) |-> Task_from_dict(file.data[i])]]
        ELSE IF err = "FileNotFoundError"
        THEN [raised |-> "none", tasks |-> << >>]
        ELSE IF err = "JSONDecodeError"
        THEN [raised |-> "none", tasks |-> << >>]
        ELSE [raised |-> "none", tasks |-> << >>]

(* save_tasks: an exception of open or json.dump is logged and swallowed *)
save_tasks(tsks, file) ==
    LET tasks_data == [i \in 1..Len(tsks) |-> Task_to_dict(tsks[i])]
    IN  IF file.writable
        THEN [raised |-> "none", file |-> TaskFile("json", tasks_data, TRUE)]
        ELSE [raised |-> "none", file |-> file]

(* TaskService.__init__: the list of a service constructed on data_source *)
TaskService_init(data_source, file) ==
    IF data_source = "tasks.json"
    THEN load_tasks(file)
    ELSE [raised |-> "none", tasks |-> << >>]

TaskIdsOf(tsks) == {tsks[i].task_id : i \in 1..Len(tsks)}

(* max(ids, default=0) *)
MaxOrDefault(ids, default) ==
    IF ids = {} THEN default ELSE CHOOSE m \in ids : \A x \in ids : x <= m

(* Index of the first task with that id, 0 when there is none *)
FirstIndex(tsks, task_id) ==
    IF \E i \in 1..Len(tsks) : tsks[i].task_id = task_id
    THEN CHOOSE i \in 1..Len(tsks) :
            /\ tsks[i].task_id = task_id
            /\ \A j \in 1..(i - 1) : tsks[j].task_id # task_id
    ELSE 0

(* list.remove of the element at index i *)
RemoveAt(tsks, i) ==
    [j \in 1..(Len(tsks) - 1) |-> IF j < i THEN tsks[j] ELSE tsks[j + 1]]

RetNone == [kind |-> "None", task |-> NoTask, bool |-> FALSE]
RetTask(t) == [kind |-> "Task", task |-> t, bool |-> FALSE]
RetBool(b) == [kind |-> "bool", task |-> NoTask, bool |-> b]

get_task(tsks, task_id) ==
    LET i == FirstIndex(tsks, task_id)
    IN  IF i = 0 THEN RetNone ELSE RetTask(tsks[i])

(* Result of one TaskService call *)
TaskOutcome(tsks, file, raised, ret, calls) ==
    [tasks |-> tsks, file |-> file, raised |-> raised, ret |-> ret,
     calls |-> calls]

(* create_task that numbers the new task by the length of the list *)
create_task_by_len(tsks, file, title, description, due_date) ==
    IF title = "" \/ description = "" \/ due_date = ""
    THEN TaskOutcome(tsks, file, "ValueError", RetNone, << >>)
    ELSE LET next_id == Len(tsks) + 1
             new_task == Task(next_id, title, description, due_date, "To Do")
             tsks1 == Append(tsks, new_task)
             sv == save_tasks(tsks1, file)
         IN  TaskOutcome(tsks1, sv.file, sv.raised, RetTask(new_task), <<"save_tasks">>)

(* create_task that does not look at due_date *)
create_task_any_date(tsks, file, title, description, due_date) ==
    IF title = "" \/ description = ""
    THEN TaskOutcome(tsks, file, "ValueError", RetNone, << >>)
    ELSE LET next_id == MaxOrDefault(TaskIdsOf(tsks), 0) + 1
             new_task == Task(next_id, title, description, due_date, "To Do")
             tsks1 == Append(tsks, new_task)
             sv == save_tasks(tsks1, file)
         IN  TaskOutcome(tsks1, sv.file, sv.raised, RetTask(new_task), <<"save_tasks">>)

(* create_task that puts the new task at the head of the list *)
create_task_prepend(tsks, file, title, description, due_date) ==
    IF title = "" \/ description = "" \/ due_date = ""
    THEN TaskOutcome(tsks, file, "ValueError", RetNone, << >>)
    ELSE LET next_id == MaxOrDefault(TaskIdsOf(tsks), 0) + 1
             new_task == Task(next_id, title, description, due_date, "To Do")
             tsks1 == <<new_task>> \o tsks
             sv == save_tasks(tsks1, file)
         IN  TaskOutcome(tsks1, sv.file, sv.raised, RetTask(new_task), <<"save_tasks">>)

create_task(tsks, file, title, description, due_date) ==
    IF title = "" \/ description = "" \/ due_date = ""
    THEN TaskOutcome(tsks, file, "ValueError", RetNone, << >>)
    ELSE LET next_id == MaxOrDefault(TaskIdsOf(tsks), 0) + 1
             new_task == Task(next_id, title, description, due_date, "To Do")
             tsks1 == Append(tsks, new_task)
             sv == save_tasks(tsks1, file)
         IN  TaskOutcome(tsks1, sv.file, sv.raised, RetTask(new_task), <<"save_tasks">>)

(* update_task that leaves the status of the task as it was *)
update_task_keep_status(tsks, file, task_id, title, description, due_date, status) ==
    LET i == FirstIndex(tsks, task_id)
    IN  IF i = 0
        THEN TaskOutcome(tsks, file, "none", RetNone, <<"get_task">>)
        ELSE IF title = "" \/ description = "" \/ due_date = "" \/ status = ""
        THEN TaskOutcome(tsks, file, "ValueError", RetNone, <<"get_task">>)
        ELSE LET task == [tsks[i] EXCEPT !.title = title,
                                         !.description = description,
                                         !.due_date = due_date]
                 tsks1 == [tsks EXCEPT ![i] = task]
                 sv == save_tasks(tsks1, file)
             IN  TaskOutcome(tsks1, sv.file, sv.raised, RetTask(task),
                             <<"get_task", "save_tasks">>)

(* update_task that assigns the title before it validates the fields *)
update_task_assign_first(tsks, file, task_id, title, description, due_date, status) ==
    LET i == FirstIndex(tsks, task_id)
    IN  IF i = 0
        THEN TaskOutcome(tsks, file, "none", RetNone, <<"get_task">>)
        ELSE IF title = "" \/ description = "" \/ due_date = "" \/ status = ""
        THEN TaskOutcome([tsks EXCEPT ![i].title = title], file, "ValueError",
                         RetNone, <<"get_task">>)
        ELSE LET task == [tsks[i] EXCEPT !.title = title,
                                         !.description = description,
                                         !.due_date = due_date,
                                         !.status = status]
                 tsks1 == [tsks EXCEPT ![i] = task]
                 sv == save_tasks(tsks1, file)
             IN  TaskOutcome(tsks1, sv.file, sv.raised, RetTask(task),
                             <<"get_task", "save_tasks">>)

(* update_task that also renumbers the task to its position in the list *)
update_task_renumber(tsks, file, task_id, title, description, due_date, status) ==
    LET i == FirstIndex(tsks, task_id)
    IN  IF i = 0
        THEN TaskOutcome(tsks, file, "none", RetNone, <<"get_task">>)
        ELSE IF title = "" \/ description = "" \/ due_date = "" \/ status = ""
        THEN TaskOutcome(tsks, file, "ValueError", RetNone, <<"get_task">>)
        ELSE LET task == [tsks[i] EXCEPT !.task_id = i,
                                         !.title = title,
                                         !.description = description,
                                         !.due_date = due_date,
                                         !.status = status]
                 tsks1 == [tsks EXCEPT ![i] = task]
                 sv == save_tasks(tsks1, file)
             IN  TaskOutcome(tsks1, sv.file, sv.raised, RetTask(task),
                             <<"get_task", "save_tasks">>)

update_task(tsks, file, task_id, title, description, due_date, status) ==
    LET i == FirstIndex(tsks, task_id)
    IN  IF i = 0
        THEN TaskOutcome(tsks, file, "none", RetNone, <<"get_task">>)
        ELSE IF title = "" \/ description = "" \/ due_date = "" \/ status = ""
        THEN TaskOutcome(tsks, file, "ValueError", RetNone, <<"get_task">>)
        ELSE LET task == [tsks[i] EXCEPT !.title = title,
                                         !.description = description,
                                         !.due_date = due_date,
                                         !.status = status]
                 tsks1 == [tsks EXCEPT ![i] = task]
                 sv == save_tasks(tsks1, file)
             IN  TaskOutcome(tsks1, sv.file, sv.raised, RetTask(task),
                             <<"get_task", "save_tasks">>)

(* delete_task that drops every task with that id *)
delete_task_every(tsks, file, task_id) ==
    LET i == FirstIndex(tsks, task_id)
    IN  IF i = 0
        THEN TaskOutcome(tsks, file, "none", RetBool(FALSE), <<"get_task">>)
        ELSE LET tsks1 == SelectSeq(tsks, LAMBDA t : t.task_id # task_id)
                 sv == save_tasks(tsks1, file)
             IN  TaskOutcome(tsks1, sv.file, sv.raised, RetBool(TRUE),
                             <<"get_task", "save_tasks">>)

delete_task(tsks, file, task_id) ==
    LET i == FirstIndex(tsks, task_id)
    IN  IF i = 0
        THEN TaskOutcome(tsks, file, "none", RetBool(FALSE), <<"get_task">>)
        ELSE LET tsks1 == RemoveAt(tsks, i)
                 sv == save_tasks(tsks1, file)
             IN  TaskOutcome(tsks1, sv.file, sv.raised, RetBool(TRUE),
                             <<"get_task", "save_tasks">>)

----------------------------------------------------------------------------
(* Inputs of the task service *)

DataSources == {"tasks.json", "mock"}

(* title, description, due_date *)
CreateInputs ==
    { <<"Task A", "Description A", "2024-03-25">>,
      <<"", "Description A", "2024-03-25">>,
      <<"Task A", "", "2024-03-25">>,
      <<"Task A", "Description A", "">> }

(* title, description, due_date, status *)
UpdateInputs ==
    { <<"Task B", "Description B", "2024-04-01", "Completed">>,
      <<"Task A", "Description A", "2024-03-25", "To Do">>,
      <<"", "Description B", "2024-04-01", "Completed">>,
      <<"Task B", "", "2024-04-01", "Completed">>,
      <<"Task B", "Description B", "", "Completed">>,
      <<"Task B", "Description B", "2024-04-01", "">> }

TaskIds == (1..MaxTaskId) \cup {99}

TaskDict(task_id, title, status) ==
    [task_id |-> task_id, title |-> title, description |-> "Description A",
     due_date |-> "2024-03-25", status |-> status]

(* Contents the service may find at data_source when it is constructed *)
InitTaskContents ==
    { <<"missing", << >> >>,
      <<"malformed", << >> >>,
      <<"json", << >> >>,
      <<"json", <<TaskDict(1, "Task A", "To Do"), TaskDict(2, "Task B", "In Progress")>> >>,
      <<"json", <<TaskDict(2, "Task A", "To Do"), TaskDict(2, "Task B", "Completed")>> >> }

(* Observation of a TaskService call: its arguments, what it raised and     *)
(* returned, the inner calls it made, the list and the file before the      *)
(* call, the ids create_task had returned before the call, and whether it   *)
(* is the first call on the instance.                                       *)
TaskObserved(op, task_id, fields, out, before, issued, first, fileBefore) ==
    [op |-> op, task_id |-> task_id, fields |-> fields,
     raised |-> out.raised, ret |-> out.ret, calls |-> out.calls,
     before |-> before, issued |-> issued, first |-> first,
     fileBefore |-> fileBefore]

NoTaskCall(ld, file) ==
    [op |-> "__init__", task_id |-> 0, fields |-> << >>,
     raised |-> ld.raised, ret |-> RetNone, calls |-> << >>,
     before |-> ld.tasks, issued |-> {}, first |-> FALSE,
     fileBefore |-> file]

Distinct(tsks) ==
    \A i, j \in 1..Len(tsks) : i # j => tsks[i].task_id # tsks[j].task_id

(* Observer of one service instance: the ids it was constructed with, the   *)
(* ids create_task returned, the ids of the tasks delete_task removed.      *)
NoHistory(tsks) ==
    [loaded |-> TaskIdsOf(tsks), startDistinct |-> Distinct(tsks),
     issued |-> {}, deleted |-> {}]

(* The service object exists: its construction did not raise *)
TaskUsable ==
    /\ tlast.op # "none"
    /\ tlast.op = "__init__" => tlast.raised = "none"

TaskService(data_source, file) ==
    /\ dataSource = data_source
    /\ taskFile = file
    /\ tasks = TaskService_init(data_source, file).tasks
    /\ tlast = NoTaskCall(TaskService_init(data_source, file), file)
    /\ thist = NoHistory(TaskService_init(data_source, file).tasks)

TaskApply(op, task_id, fields, out) ==
    /\ TaskUsable
    /\ tasks' = out.tasks
    /\ taskFile' = out.file
    /\ tlast' = TaskObserved(op, task_id, fields, out, tasks, thist.issued,
                             tlast.op = "__init__", taskFile)
    /\ thist' = [thist EXCEPT
                   !.issued = IF op = "create_task" /\ out.raised = "none"
                              THEN @ \cup {out.ret.task.task_id} ELSE @,
                   !.deleted = IF op = "delete_task" /\ out.ret.bool
                               THEN @ \cup {task_id} ELSE @]
    /\ UNCHANGED dataSource
    /\ UNCHANGED <<bankVars, sqlVars, acctVars>>

CreateTask ==
    \E f \in CreateInputs :
        /\ (f[1] # "" /\ f[2] # "" /\ f[3] # "") =>
              /\ Len(tasks) < MaxTasks
              /\ MaxOrDefault(TaskIdsOf(tasks), 0) < MaxTaskId
        /\ TaskApply("create_task", 0, f,
                     create_task(tasks, taskFile, f[1], f[2], f[3]))

GetTask ==
    \E id \in TaskIds :
        TaskApply("get_task", id, << >>,
                  TaskOutcome(tasks, taskFile, "none", get_task(tasks, id), << >>))

UpdateTask ==
    \E id \in TaskIds, f \in UpdateInputs :
        TaskApply("update_task", id, f,
                  update_task(tasks, taskFile, id, f[1], f[2], f[3], f[4]))

DeleteTask ==
    \E id \in TaskIds :
        TaskApply("delete_task", id, << >>, delete_task(tasks, taskFile, id))

(* A later run of the program constructs a new service on the same file *)
(* The status values the JSON variant is used with *)
JsonStatuses == {"To Do", "In Progress", "Completed"}

(* update_task called to set a status, the other fields given *)
SetStatus ==
    \E id \in TaskIds, s \in JsonStatuses :
        TaskApply("update_task", id, <<"Task B", "Description B", "2024-04-01", s>>,
                  update_task(tasks, taskFile, id,
                              "Task B", "Description B", "2024-04-01", s))

NewTaskService ==
    /\ tlast.op # "none"
    /\ tasks' = TaskService_init(dataSource, taskFile).tasks
    /\ tlast' = NoTaskCall(TaskService_init(dataSource, taskFile), taskFile)
    /\ thist' = NoHistory(TaskService_init(dataSource, taskFile).tasks)
    /\ UNCHANGED <<taskFile, dataSource>>
    /\ UNCHANGED <<bankVars, sqlVars, acctVars>>

----------------------------------------------------------------------------
(* task-management-system/models/task.py *)

TaskStatus == {"TODO", "IN_PROGRESS", "COMPLETED"}

(* Instants of the clock; a datetime is the instant it was read at *)
Times == 0..(MaxClock + 1)

isoformat(t) == ToString(t)

fromisoformat(text) == CHOOSE t \in Times : isoformat(t) = text

(* Task.__init__: an id of None is 0; now is what datetime.now() returns *)
SqlTask(title, description, due_date, task_id, now) ==
    [id |-> task_id, title |-> title, description |-> description,
     status |-> "TODO", due_date |-> due_date,
     created_at |-> now, updated_at |-> now]

NoSqlTask == SqlTask("", "", 0, 0, 0)

(* Position of a status in TODO, IN_PROGRESS, COMPLETED *)
StatusRank(status) ==
    CASE status = "TODO" -> 1
      [] status = "IN_PROGRESS" -> 2
      [] OTHER -> 3

(* update_status that only moves forward along TODO, IN_PROGRESS, COMPLETED *)
Task_update_status_forward(task, new_status, later) ==
    IF StatusRank(new_status) > StatusRank(task.status)
    THEN [task EXCEPT !.status = new_status, !.updated_at = later]
    ELSE task

(* Task.update_status: later is datetime.now() after the sleep *)
Task_update_status(task, new_status, later) ==
    [task EXCEPT !.status = new_status, !.updated_at = later]

----------------------------------------------------------------------------
(* task-management-system/services/task_service.py *)

(* The database at a path: whether it has the tasks table, the rows of the  *)
(* table in insertion order, and the largest id AUTOINCREMENT has given.    *)
Database(table, rows, seq) == [table |-> table, rows |-> rows, seq |-> seq]

EmptyDatabase == Database(FALSE, << >>, 0)

(* sqlite3.connect(db_path): ":memory:" is a new, empty, private database   *)
(* on every call; any other path is the database in that file.              *)
connect(d) ==
    IF d.path = ":memory:" THEN EmptyDatabase ELSE Database(d.table, d.rows, d.seq)

(* Leaving the with block after commit: a private database is dropped with  *)
(* its connection, a file keeps what was written.                           *)
commit(d, conn) ==
    IF d.path = ":memory:"
    THEN d
    ELSE [d EXCEPT !.table = conn.table, !.rows = conn.rows, !.seq = conn.seq]

(* _init_db: CREATE TABLE IF NOT EXISTS tasks *)
init_db(d) == commit(d, [connect(d) EXCEPT !.table = TRUE])

SqlRetNone == [kind |-> "None", task |-> NoSqlTask]

SqlRetTask(t) == [kind |-> "Task", task |-> t]

(* Result of one call: the database and clock after it, what it raised and  *)
(* returned.                                                                *)
SqlOutcome(d, raised, ret) == [db |-> d, raised |-> raised, ret |-> ret]

RowIndex(rows, task_id) ==
    IF \E i \in 1..Len(rows) : rows[i].id = task_id
    THEN CHOOSE i \in 1..Len(rows) : rows[i].id = task_id
    ELSE 0

sqlite_create_task(d, task) ==
    LET conn == connect(d)
    IN  IF ~conn.table
        THEN SqlOutcome(d, "OperationalError", SqlRetNone)
        ELSE LET lastrowid == conn.seq + 1
                 row == [id |-> lastrowid, title |-> task.title,
                         description |-> task.description, status |-> task.status,
                         due_date |-> isoformat(task.due_date),
                         created_at |-> isoformat(task.created_at),
                         updated_at |-> isoformat(task.updated_at)]
                 conn1 == Database(TRUE, Append(conn.rows, row), lastrowid)
             IN  SqlOutcome(commit(d, conn1), "none",
                            SqlRetTask([task EXCEPT !.id = lastrowid]))

(* _row_to_task *)
row_to_task(row, now) ==
    [SqlTask(row.title, row.description, fromisoformat(row.due_date), row.id, now)
        EXCEPT !.status = row.status,
               !.created_at = fromisoformat(row.created_at),
               !.updated_at = fromisoformat(row.updated_at)]

sqlite_get_task(d, task_id) ==
    LET conn == connect(d)
        i == RowIndex(conn.rows, task_id)
    IN  IF ~conn.table
        THEN SqlOutcome(d, "OperationalError", SqlRetNone)
        ELSE IF i = 0
        THEN SqlOutcome(d, "none", SqlRetNone)
        ELSE SqlOutcome(d, "none", SqlRetTask(row_to_task(conn.rows[i], d.now)))

update_task_status(d, task_id, new_status) ==
    LET got == sqlite_get_task(d, task_id)
    IN  IF got.raised # "none"
        THEN SqlOutcome(d, got.raised, SqlRetNone)
        ELSE IF got.ret.kind = "None"
        THEN SqlOutcome(d, "none", SqlRetNone)
        ELSE LET later == d.now + 1
                 task == Task_update_status(got.ret.task, new_status, later)
                 d1 == [d EXCEPT !.now = later]
                 conn == connect(d1)
                 rows1 == [i \in 1..Len(conn.rows) |->
                              IF conn.rows[i].id = task_id
                              THEN [conn.rows[i] EXCEPT
                                       !.status = new_status,
                                       !.updated_at = isoformat(task.updated_at)]
                              ELSE conn.rows[i]]
             IN  IF ~conn.table
                 THEN SqlOutcome(d1, "OperationalError", SqlRetNone)
                 ELSE SqlOutcome(commit(d1, [conn EXCEPT !.rows = rows1]), "none",
                                 SqlRetTask(task))

----------------------------------------------------------------------------
(* Inputs of the SQLite task service *)

DbPaths == {":memory:", "tasks.db"}

SqlTitles == {"Test Task", "Complete project"}

SqlTaskIds == (1..MaxRows) \cup {999}

(* What is at db_path when the service is constructed: no file, the empty   *)
(* table of an earlier run, or the row an earlier run of main.py left.      *)
InitDatabases ==
    { EmptyDatabase,
      Database(TRUE, << >>, 0),
      Database(TRUE,
               <<[id |-> 1, title |-> "Complete project",
                  description |-> "Implement all required features",
                  status |-> "IN_PROGRESS", due_date |-> isoformat(0),
                  created_at |-> isoformat(0), updated_at |-> isoformat(0)]>>,
               1) }

(* Observation of a call: its arguments, what it raised and returned, and   *)
(* the database before the call.                                            *)
SqlObserved(op, task_id, status, task, out, before) ==
    [op |-> op, task_id |-> task_id, status |-> status, task |-> task,
     raised |-> out.raised, ret |-> out.ret, before |-> before]

NoSqlCall(d) ==
    [op |-> "__init__", task_id |-> 0, status |-> "", task |-> NoSqlTask,
     raised |-> "none", ret |-> SqlRetNone, before |-> d]

(* TaskService.__init__ *)
SqlService(path, content) ==
    LET d == [path |-> path, table |-> content.table, rows |-> content.rows,
              seq |-> content.seq, now |-> 0]
    IN  /\ db = init_db(d)
        /\ slast = NoSqlCall(d)

SqlApply(op, task_id, status, task, out) ==
    /\ slast.op # "none"
    /\ db' = out.db
    /\ slast' = SqlObserved(op, task_id, status, task, out, db)
    /\ UNCHANGED <<bankVars, taskVars, acctVars>>

(* The caller constructs the Task and passes it *)
SqlCreateTask ==
    \E title \in SqlTitles :
        LET task == SqlTask(title, "Test Description", db.now, 0, db.now)
        IN  /\ connect(db).table => Len(db.rows) < MaxRows
            /\ SqlApply("create_task", 0, "", task, sqlite_create_task(db, task))

SqlGetTask ==
    \E id \in SqlTaskIds :
        SqlApply("get_task", id, "", NoSqlTask, sqlite_get_task(db, id))

SqlUpdateTaskStatus ==
    \E id \in SqlTaskIds, s \in TaskStatus :
        /\ RowIndex(connect(db).rows, id) # 0 => db.now < MaxClock
        /\ SqlApply("update_task_status", id, s, NoSqlTask,
                    update_task_status(db, id, s))

(* A later run constructs a new service on the same path *)
NewSqlService ==
    /\ slast.op # "none"
    /\ db' = init_db(db)
    /\ slast' = NoSqlCall(db)
    /\ UNCHANGED <<bankVars, taskVars, acctVars>>

SqlIdle ==
    /\ db = [path |-> "", table |-> FALSE, rows |-> << >>, seq |-> 0, now |-> 0]
    /\ slast = [NoSqlCall(db) EXCEPT !.op = "none"]

----------------------------------------------------------------------------
(* pytest-1/python/bank_account.py *)

BankAccount(initial_balance) ==
    [balance |-> initial_balance, transactions |-> << >>]

(* The f-strings appended to transactions *)
Deposited(amount) == "Deposited " \o ToString(amount)

Withdrew(amount) == "Withdrew " \o ToString(amount)

(* Result of one BankAccount call *)
AcctOutcome(self, raised, ret) == [self |-> self, raised |-> raised, ret |-> ret]

(* deposit that also accepts an amount of zero *)
BankAccount_deposit_zero(self, amount) ==
    IF amount >= 0
    THEN LET self1 == [balance |-> self.balance + amount,
                       transactions |-> Append(self.transactions, Deposited(amount))]
         IN  AcctOutcome(self1, "none", self1.balance)
    ELSE AcctOutcome(self, "none", self.balance)

BankAccount_deposit(self, amount) ==
    IF amount > 0
    THEN LET self1 == [balance |-> self.balance + amount,
                       transactions |-> Append(self.transactions, Deposited(amount))]
         IN  AcctOutcome(self1, "none", self1.balance)
    ELSE AcctOutcome(self, "none", self.balance)

BankAccount_withdraw(self, amount) ==
    IF 0 < amount /\ amount <= self.balance
    THEN LET self1 == [balance |-> self.balance - amount,
                       transactions |-> Append(self.transactions, Withdrew(amount))]
         IN  AcctOutcome(self1, "none", self1.balance)
    ELSE AcctOutcome(self, "none", self.balance)

BankAccount_get_balance(self) == AcctOutcome(self, "none", self.balance)

(* Balances the tests construct the account with, and the default *)
InitialBalances == {0, 100}

(* Observation of a BankAccount call: its argument, what it raised and      *)
(* returned, the object before the call, and the calls made so far that     *)
(* the guards of the class accept, in call order.                           *)
AcctObserved(op, amount, out, before, valid) ==
    [op |-> op, amount |-> amount, raised |-> out.raised, ret |-> out.ret,
     before |-> before, valid |-> valid]

NoAcctCall(self) ==
    [op |-> "__init__", amount |-> 0, raised |-> "none", ret |-> 0,
     before |-> self, valid |-> << >>]

IsValidCall(op, amount, self) ==
    \/ op = "deposit" /\ amount > 0
    \/ op = "withdraw" /\ 0 < amount /\ amount <= self.balance

AcctApply(op, amount, out) ==
    /\ alast.op # "none"
    /\ IsValidCall(op, amount, bankAccount) =>
          Len(bankAccount.transactions) < MaxTransactions
    /\ bankAccount' = out.self
    /\ alast' = AcctObserved(op, amount, out, bankAccount,
                             IF IsValidCall(op, amount, bankAccount)
                             THEN Append(alast.valid, <<op, amount>>)
                             ELSE alast.valid)
    /\ UNCHANGED <<bankVars, taskVars, sqlVars>>

AcctDeposit ==
    \E a \in Amounts : AcctApply("deposit", a, BankAccount_deposit(bankAccount, a))

AcctWithdraw ==
    \E a \in Amounts : AcctApply("withdraw", a, BankAccount_withdraw(bankAccount, a))

AcctGetBalance == AcctApply("get_balance", 0, BankAccount_get_balance(bankAccount))

AcctIdle ==
    /\ bankAccount = BankAccount(0)
    /\ alast = [NoAcctCall(BankAccount(0)) EXCEPT !.op = "none"]

----------------------------------------------------------------------------
(* Specifications: each service is examined with the other one idle *)

TaskIdle ==
    /\ dataSource = ""
    /\ taskFile = TaskFile("missing", << >>, TRUE)
    /\ tasks = << >>
    /\ tlast = [NoTaskCall(TaskService_init("", taskFile), taskFile)
                  EXCEPT !.op = "none"]
    /\ thist = NoHistory(<< >>)

BankIdle ==
    /\ bankFile = MissingFile
    /\ accounts = EmptyMap
    /\ blast = [NoCall(load_accounts(MissingFile), MissingFile) EXCEPT !.op = "none"]
    /\ scen = ScenOff

InitBank ==
    /\ \E file \in InitBankFiles : BankService(file)
    /\ TaskIdle
    /\ SqlIdle
    /\ AcctIdle

NextBank ==
    \/ CreateAccount
    \/ Deposit
    \/ Withdraw
    \/ Transfer
    \/ GetAccount
    \/ NewBankService

SpecBank == InitBank /\ [][NextBank]_vars


InitTask ==
    /\ \E ds \in DataSources, c \in InitTaskContents, writable \in BOOLEAN :
          TaskService(ds, TaskFile(c[1], c[2], writable))
    /\ BankIdle
    /\ SqlIdle
    /\ AcctIdle

NextTask ==
    \/ CreateTask
    \/ GetTask
    \/ UpdateTask
    \/ DeleteTask
    \/ NewTaskService

SpecTask == InitTask /\ [][NextTask]_vars

(* The bank service on a file of three accounts, none of them created by   *)
(* this run: every call names at most two of them.                          *)
ThreeAccountsFile ==
    JsonFile([k \in {"ACC0001", "ACC0002", "ACC0003"} |->
                 CASE k = "ACC0001" -> [account_number |-> k,
                                        account_holder |-> "Alice", balance |-> 100]
                   [] k = "ACC0002" -> [account_number |-> k,
                                        account_holder |-> "Bob", balance |-> 50]
                   [] OTHER -> [account_number |-> k,
                                account_holder |-> "Carol", balance |-> 50]])

InitFrame ==
    /\ BankService(ThreeAccountsFile)
    /\ TaskIdle
    /\ SqlIdle
    /\ AcctIdle

NextFrame ==
    \/ Deposit
    \/ Withdraw
    \/ Transfer
    \/ GetAccount
    \/ ListAllAccounts
    \/ NewBankService

SpecFrame == InitFrame /\ [][NextFrame]_vars

(* The two services that keep their records in a JSON file *)
InitJson == InitBank \/ InitTask

NextJson ==
    \/ CreateAccount
    \/ Deposit
    \/ Withdraw
    \/ Transfer
    \/ NewBankService
    \/ CreateTask
    \/ UpdateTask
    \/ NewTaskService

SpecJson == InitJson /\ [][NextJson]_vars

InitSqlite ==
    /\ \E path \in DbPaths, content \in InitDatabases :
          /\ path = ":memory:" => content = EmptyDatabase
          /\ SqlService(path, content)
    /\ BankIdle
    /\ TaskIdle
    /\ AcctIdle

NextSqlite ==
    \/ SqlCreateTask
    \/ SqlGetTask
    \/ SqlUpdateTaskStatus
    \/ NewSqlService

SpecSqlite == InitSqlite /\ [][NextSqlite]_vars

(* Both variants of the task service, as far as the status is concerned *)
InitStatus == InitTask \/ InitSqlite

NextStatus ==
    \/ CreateTask
    \/ SetStatus
    \/ NewTaskService
    \/ SqlCreateTask
    \/ SqlUpdateTaskStatus
    \/ NewSqlService

SpecStatus == InitStatus /\ [][NextStatus]_vars

InitAccount ==
    /\ \E b \in InitialBalances :
          /\ bankAccount = BankAccount(b)
          /\ alast = NoAcctCall(BankAccount(b))
    /\ BankIdle
    /\ TaskIdle
    /\ SqlIdle

NextAccount ==
    \/ AcctDeposit
    \/ AcctWithdraw
    \/ AcctGetBalance

SpecAccount == InitAccount /\ [][NextAccount]_vars

(* Construction and creation in either program: a service is constructed on *)
(* whatever file is there, creates and looks up, and is constructed again   *)
(* by a later run; create_account is also called without a name.            *)
InitCreate == InitBank \/ InitTask

NextCreate ==
    \/ CreateAccount
    \/ CreateAccountNoHolder
    \/ GetAccount
    \/ NewBankService
    \/ CreateTask
    \/ GetTask
    \/ NewTaskService

SpecCreate == InitCreate /\ [][NextCreate]_vars

----------------------------------------------------------------------------
(* Properties of the bank service *)

Called(calls, name) == \E i \in 1..Len(calls) : calls[i] = name

NumCalls(calls, name) == Cardinality({i \in 1..Len(calls) : calls[i] = name})

(* C2: every create_account that returns normally used an account number    *)
(* that was not yet a key of accounts: the number of accounts grew by       *)
(* exactly one and every account held before is still there, unchanged.     *)
C2_UniqueAccountNumber ==
    (blast.op = "create_account" /\ blast.raised = "none") =>
        /\ blast.ret.value.account_number \notin DOMAIN blast.before
        /\ Cardinality(DOMAIN accounts) = Cardinality(DOMAIN blast.before) + 1
        /\ \A k \in DOMAIN blast.before :
              k \in DOMAIN accounts /\ accounts[k] = blast.before[k]

(* C4: deposit on an existing account with balance b: for a > 0 the balance *)
(* becomes b + a and save_accounts is called exactly once; for a <= 0 a     *)
(* ValueError is raised, the balance stays b and save_accounts is not       *)
(* called.                                                                  *)
C4_Deposit ==
    (blast.op = "deposit" /\ blast.acct \in DOMAIN blast.before) =>
        LET b == blast.before[blast.acct].balance
            a == blast.amount
        IN  /\ a > 0 => /\ accounts[blast.acct].balance = b + a
                        /\ NumCalls(blast.calls, "save_accounts") = 1
            /\ a <= 0 => /\ blast.raised = "ValueError"
                         /\ accounts[blast.acct].balance = b
                         /\ NumCalls(blast.calls, "save_accounts") = 0

C4_Witness ==
    /\ blast.op = "deposit"
    /\ blast.acct \in DOMAIN blast.before
    /\ blast.amount > 0
    /\ blast.before[blast.acct].balance > 0
    /\ blast.raised = "none"
    /\ accounts[blast.acct].balance = blast.before[blast.acct].balance + blast.amount

(* C5: withdraw on an existing account with balance b: for 0 < a <= b the   *)
(* balance becomes b - a (a = b included) and save_accounts is called once; *)
(* for a <= 0 or a > b a ValueError is raised, the balance stays b and      *)
(* save_accounts is not called.                                             *)
C5_Withdraw ==
    (blast.op = "withdraw" /\ blast.acct \in DOMAIN blast.before) =>
        LET b == blast.before[blast.acct].balance
            a == blast.amount
        IN  /\ (0 < a /\ a <= b) => /\ accounts[blast.acct].balance = b - a
                                    /\ NumCalls(blast.calls, "save_accounts") = 1
            /\ (a <= 0 \/ a > b) => /\ blast.raised = "ValueError"
                                    /\ accounts[blast.acct].balance = b
                                    /\ NumCalls(blast.calls, "save_accounts") = 0

C5_Witness ==
    /\ blast.op = "withdraw"
    /\ blast.acct \in DOMAIN blast.before
    /\ blast.amount > 0
    /\ blast.amount = blast.before[blast.acct].balance
    /\ blast.raised = "none"
    /\ accounts[blast.acct].balance = 0

(* C6: a transfer whose debit fails validation (amount not positive, or     *)
(* more than the source balance) never attempts the credit, never calls     *)
(* save_accounts and raises ValueError; a transfer naming an account that   *)
(* does not exist raises ValueError without any mutation or inner call.     *)
C6_TransferDebitFails ==
    (blast.op = "transfer") =>
        /\ (/\ blast.acct \in DOMAIN blast.before
            /\ blast.to \in DOMAIN blast.before
            /\ \/ blast.amount <= 0
               \/ blast.amount > blast.before[blast.acct].balance)
           => /\ blast.raised = "ValueError"
              /\ ~Called(blast.calls, "Account.deposit")
              /\ ~Called(blast.calls, "save_accounts")
              /\ accounts = blast.before
        /\ (blast.acct \notin DOMAIN blast.before \/ blast.to \notin DOMAIN blast.before)
           => /\ blast.raised = "ValueError"
              /\ blast.calls = << >>
              /\ accounts = blast.before

C6_Witness ==
    /\ blast.op = "transfer"
    /\ blast.acct \in DOMAIN blast.before
    /\ blast.to \in DOMAIN blast.before
    /\ blast.acct # blast.to
    /\ blast.amount > blast.before[blast.acct].balance
    /\ blast.raised = "ValueError"
    /\ ~Called(blast.calls, "Account.deposit")

(* C7: whenever transfer raises, for whatever reason, the balances of the   *)
(* source and of the destination account are those before the call.         *)
C7_TransferRollsBack ==
    (blast.op = "transfer" /\ blast.raised # "none") =>
        \A k \in {blast.acct, blast.to} \cap DOMAIN blast.before :
            k \in DOMAIN accounts /\ accounts[k].balance = blast.before[k].balance

(* C8: along the scenario on an initially empty service, Alice has 150      *)
(* after the deposit, the withdraw of 200 raises and leaves 150, and after  *)
(* the transfer Alice has 100 and Bob has 50, as two distinct accounts.     *)
C8_Scenario ==
    scen.on =>
        /\ scen.step = 2 => accounts[scen.alice].balance = 150
        /\ scen.step = 3 => /\ blast.op = "withdraw" => blast.raised = "ValueError"
                            /\ accounts[scen.alice].balance = 150
        /\ scen.step = 5 => /\ scen.alice # scen.bob
                            /\ Cardinality(DOMAIN accounts) = 2
                            /\ accounts[scen.alice].balance = 100
                            /\ accounts[scen.alice].account_holder = "Alice"
                            /\ accounts[scen.bob].balance = 50
                            /\ accounts[scen.bob].account_holder = "Bob"

C8_Witness == scen.on /\ scen.step = 5 /\ blast.op = "transfer" /\ blast.raised = "none"


----------------------------------------------------------------------------
(* Properties of the JSON task service *)

(* C1: every create_task that returns normally returns a task whose task_id *)
(* differs from every task_id create_task returned before on this service   *)
(* instance, the ids of tasks deleted since included.                       *)
C1_FreshTaskId ==
    (tlast.op = "create_task" /\ tlast.raised = "none") =>
        tlast.ret.task.task_id \notin tlast.issued

(* C3: on a service constructed with distinct task_ids (an empty list       *)
(* included), no two tasks of the list have the same task_id, whatever      *)
(* create_task, update_task and delete_task calls were made.                *)
C3_UniqueTaskIds == thist.startDistinct => Distinct(tasks)

C3_Witness ==
    /\ thist.startDistinct
    /\ tlast.op = "create_task"
    /\ tlast.raised = "none"
    /\ thist.deleted # {}
    /\ Len(tlast.before) > 0
    /\ Len(tasks) = Len(tlast.before) + 1

(* C9: get_task never raises; on a service constructed with distinct       *)
(* task_ids, for an id no task of this service ever had, and for the id of  *)
(* a task that a successful delete_task removed, it returns None and        *)
(* leaves the list unchanged.                                               *)
C9_GetUnknownTask ==
    (tlast.op = "get_task" /\ thist.startDistinct) =>
        /\ tlast.raised = "none"
        /\ tasks = tlast.before
        /\ (\/ tlast.task_id \in thist.deleted
            \/ tlast.task_id \notin (thist.loaded \cup thist.issued))
           => tlast.ret.kind = "None"

(* C10: delete_task(id) on a list holding a task with that id removes that  *)
(* task only (the first with that id; the list is one shorter), calls       *)
(* save_tasks once and returns True; otherwise it leaves the list           *)
(* unchanged, does not call save_tasks and returns False.                   *)
C10_DeleteTask ==
    (tlast.op = "delete_task") =>
        LET i == FirstIndex(tlast.before, tlast.task_id)
        IN  /\ tlast.raised = "none"
            /\ tlast.ret.kind = "bool"
            /\ i # 0 => /\ Len(tasks) = Len(tlast.before) - 1
                        /\ tasks = RemoveAt(tlast.before, i)
                        /\ NumCalls(tlast.calls, "save_tasks") = 1
                        /\ tlast.ret.bool
            /\ i = 0 => /\ tasks = tlast.before
                        /\ NumCalls(tlast.calls, "save_tasks") = 0
                        /\ ~tlast.ret.bool

C10_Witness ==
    /\ tlast.op = "delete_task"
    /\ Len(tlast.before) = 2
    /\ FirstIndex(tlast.before, tlast.task_id) = 1
    /\ tlast.ret.bool
    /\ tasks = <<tlast.before[2]>>

(* C11: update_task(id, title, description, due_date, status): when the    *)
(* list holds no task with that id it returns None, leaves the list as it   *)
(* was and does not call save_tasks; when it holds one and the four fields  *)
(* are all non-empty, the first task with that id gets exactly these four   *)
(* fields (its task_id and every other task stay as they were), save_tasks  *)
(* is called once and the task returned is the one now in the list.         *)
C11_UpdateTask ==
    (tlast.op = "update_task") =>
        LET i == FirstIndex(tlast.before, tlast.task_id)
            f == tlast.fields
        IN  /\ i = 0 => /\ tlast.raised = "none"
                        /\ tlast.ret.kind = "None"
                        /\ tasks = tlast.before
                        /\ NumCalls(tlast.calls, "save_tasks") = 0
            /\ (i # 0 /\ \A n \in 1..4 : f[n] # "") =>
                   /\ tlast.raised = "none"
                   /\ Len(tasks) = Len(tlast.before)
                   /\ \A j \in 1..Len(tasks) : j # i => tasks[j] = tlast.before[j]
                   /\ tasks[i] = Task(tlast.before[i].task_id, f[1], f[2], f[3], f[4])
                   /\ NumCalls(tlast.calls, "save_tasks") = 1
                   /\ tlast.ret.kind = "Task"
                   /\ tlast.ret.task = tasks[i]

C11_Witness ==
    /\ tlast.op = "update_task"
    /\ Len(tlast.before) = 2
    /\ FirstIndex(tlast.before, tlast.task_id) = 2
    /\ tlast.before[2].status = "In Progress"
    /\ tlast.fields[4] = "Completed"
    /\ tasks[2].status = "Completed"
    /\ tasks[1] = tlast.before[1]

(* C12: update_task validates before it assigns: when the list holds a task *)
(* with that id and one of title, description, due_date, status is empty,   *)
(* it raises ValueError, no field of any task has changed and save_tasks    *)
(* was not called.                                                          *)
C12_UpdateValidatesFirst ==
    (/\ tlast.op = "update_task"
     /\ FirstIndex(tlast.before, tlast.task_id) # 0
     /\ \E n \in 1..4 : tlast.fields[n] = "") =>
        /\ tlast.raised = "ValueError"
        /\ tasks = tlast.before
        /\ NumCalls(tlast.calls, "save_tasks") = 0

C12_Witness ==
    /\ tlast.op = "update_task"
    /\ FirstIndex(tlast.before, tlast.task_id) = 1
    /\ tlast.fields[1] # ""
    /\ tlast.fields[1] # tlast.before[1].title
    /\ tlast.fields[4] = ""
    /\ tlast.raised = "ValueError"
    /\ tasks = tlast.before

(* C13: create_task(title, description, due_date): when one of the three is *)
(* empty it raises ValueError, the list is unchanged and save_tasks is not  *)
(* called; otherwise it appends exactly one task, with an id the service    *)
(* chose, these three fields and status "To Do", calls save_tasks once and  *)
(* returns that task.                                                       *)
C13_CreateTask ==
    (tlast.op = "create_task") =>
        LET f == tlast.fields
        IN  /\ (\E n \in 1..3 : f[n] = "") =>
                   /\ tlast.raised = "ValueError"
                   /\ tasks = tlast.before
                   /\ NumCalls(tlast.calls, "save_tasks") = 0
            /\ (\A n \in 1..3 : f[n] # "") =>
                   /\ tlast.raised = "none"
                   /\ Len(tasks) = Len(tlast.before) + 1
                   /\ SubSeq(tasks, 1, Len(tlast.before)) = tlast.before
                   /\ tasks[Len(tasks)] =
                          Task(tasks[Len(tasks)].task_id, f[1], f[2], f[3], "To Do")
                   /\ tasks[Len(tasks)].task_id > 0
                   /\ NumCalls(tlast.calls, "save_tasks") = 1
                   /\ tlast.ret.kind = "Task"
                   /\ tlast.ret.task = tasks[Len(tasks)]

C13_Witness ==
    /\ tlast.op = "create_task"
    /\ tlast.raised = "none"
    /\ Len(tlast.before) = 1
    /\ Len(tasks) = 2
    /\ tasks[2].status = "To Do"
    /\ tlast.ret.task = tasks[2]

(* C14: create_account with an empty account_holder raises ValueError,     *)
(* adds no account and does not call save_accounts.                         *)
C14_EmptyHolderRejected ==
    (blast.op = "create_account" /\ blast.holder = "") =>
        /\ blast.raised = "ValueError"
        /\ accounts = blast.before
        /\ NumCalls(blast.calls, "save_accounts") = 0

(* C15: create_account with a negative initial_balance raises ValueError    *)
(* before a number is generated: accounts is unchanged and neither          *)
(* _generate_account_number nor save_accounts is called; with               *)
(* initial_balance >= 0, zero included, accounts holds under the generated  *)
(* number an account of the given holder with exactly that balance, which   *)
(* is the account returned when the call returns.                           *)
C15_CreateAccountBalance ==
    (blast.op = "create_account") =>
        /\ blast.amount < 0 =>
              /\ blast.raised = "ValueError"
              /\ accounts = blast.before
              /\ blast.calls = << >>
        /\ blast.amount >= 0 =>
              LET k == generate_account_number(blast.before)
              IN  /\ blast.raised # "ValueError"
                  /\ accounts = Put(blast.before, k,
                                    Account(k, blast.holder, blast.amount))
                  /\ accounts[k].balance = blast.amount
                  /\ blast.raised = "none" => blast.ret.value = accounts[k]

C15_Witness ==
    /\ blast.op = "create_account"
    /\ blast.amount = 0
    /\ blast.raised = "none"
    /\ blast.ret.value.balance = 0
    /\ Cardinality(DOMAIN accounts) = Cardinality(DOMAIN blast.before) + 1

(* C16: load_accounts and load_tasks do not raise on a missing or malformed *)
(* file: the service is constructed with an empty store, and the first      *)
(* create on it succeeds (create_account when the write is accepted,        *)
(* create_task with three non-empty fields).                                *)
C16_LoadNeverRaises ==
    /\ (blast.op = "__init__" /\ bankFile.kind \in {"missing", "malformed"}) =>
          /\ blast.raised = "none"
          /\ accounts = EmptyMap
    /\ (tlast.op = "__init__" /\ taskFile.kind \in {"missing", "malformed"}) =>
          /\ tlast.raised = "none"
          /\ tasks = << >>
    /\ (/\ blast.op = "create_account"
        /\ blast.fileBefore.kind \in {"missing", "malformed"}
        /\ blast.amount >= 0
        /\ blast.write = "ok") =>
          /\ blast.raised = "none"
          /\ DOMAIN accounts = {blast.ret.value.account_number}
    /\ (/\ tlast.op = "create_task"
        /\ tlast.first
        /\ tlast.fileBefore.kind \in {"missing", "malformed"}
        /\ \A n \in 1..3 : tlast.fields[n] # "") =>
          /\ tlast.raised = "none"
          /\ tasks = <<tlast.ret.task>>

C16_Witness ==
    /\ blast.op = "create_account"
    /\ blast.fileBefore.kind = "malformed"
    /\ blast.before = EmptyMap
    /\ blast.raised = "none"
    /\ bankFile.kind = "json"
    /\ DOMAIN accounts = {"ACC0001"}

(* C17: a service is constructed with the tasks of the file at data_source, *)
(* whatever data_source is, and the first call of the new service, when it  *)
(* is a create_task that writes the file, leaves in the file every task     *)
(* that was there before.                                                   *)
C17_LoadedAtConstruction ==
    /\ tlast.op = "__init__" => tasks = load_tasks(taskFile).tasks
    /\ (/\ tlast.op = "create_task"
        /\ tlast.first
        /\ tlast.raised = "none"
        /\ taskFile.writable) =>
          \A i \in 1..Len(load_tasks(tlast.fileBefore).tasks) :
              \E j \in 1..Len(taskFile.data) :
                  taskFile.data[j] = tlast.fileBefore.data[i]

(* The document save_accounts writes for a map of accounts *)
Snapshot(accts) == JsonFile([k \in DOMAIN accts |-> Account_to_dict(accts[k])])

Mutating == {"create_account", "deposit", "withdraw", "transfer"}

C19_WriteFailurePropagates ==
    (blast.op \in Mutating /\ blast.write = "open_fails") =>
        /\ blast.raised = "OSError"
        /\ NumCalls(blast.calls, "save_accounts") = 1
        /\ bankFile = blast.fileBefore

C19_Witness ==
    /\ blast.op = "transfer"
    /\ blast.write = "open_fails"
    /\ blast.raised = "OSError"
    /\ NumCalls(blast.calls, "save_accounts") = 1

(* C20: when the file cannot be written, a create_task, update_task or      *)
(* delete_task that reaches save_tasks raises to its caller.                *)
C20_FlushFailsLoudly ==
    (/\ tlast.op \in {"create_task", "update_task", "delete_task"}
     /\ Called(tlast.calls, "save_tasks")
     /\ ~taskFile.writable) =>
        tlast.raised # "none"

(* C27: on a service constructed from a file whose balances are all >= 0,  *)
(* every balance is >= 0 in every state, whatever create_account, deposit,  *)
(* withdraw and transfer calls were made, failed ones included.             *)
C27_BalancesNonNegative ==
    \A k \in DOMAIN accounts : accounts[k].balance >= 0

C27_Witness ==
    /\ blast.op = "withdraw"
    /\ blast.raised = "none"
    /\ blast.before[blast.acct].balance = blast.amount
    /\ accounts[blast.acct].balance = 0

RECURSIVE SumBalances(_, _)
SumBalances(accts, keys) ==
    IF keys = {} THEN 0
    ELSE LET k == CHOOSE x \in keys : TRUE
         IN  accts[k].balance + SumBalances(accts, keys \ {k})

TotalBalance(accts) == SumBalances(accts, DOMAIN accts)

(* C28: the sum of all balances is the same before and after every         *)
(* transfer call; a transfer of a that returns, between two distinct        *)
(* accounts, takes exactly a from the source and adds exactly a to the      *)
(* destination; a transfer from an account to itself leaves its balance as  *)
(* it was.                                                                  *)
C28_TransferConserves ==
    (blast.op = "transfer") =>
        /\ DOMAIN accounts = DOMAIN blast.before
        /\ TotalBalance(accounts) = TotalBalance(blast.before)
        /\ (blast.raised = "none" /\ blast.acct # blast.to) =>
              /\ accounts[blast.acct].balance =
                    blast.before[blast.acct].balance - blast.amount
              /\ accounts[blast.to].balance =
                    blast.before[blast.to].balance + blast.amount
        /\ (blast.acct = blast.to /\ blast.acct \in DOMAIN blast.before) =>
              accounts[blast.acct].balance = blast.before[blast.acct].balance

C28_Witness ==
    /\ blast.op = "transfer"
    /\ blast.raised = "none"
    /\ blast.acct = blast.to
    /\ blast.amount = blast.before[blast.acct].balance
    /\ blast.amount > 0
    /\ Cardinality(DOMAIN accounts) = 2

StrictlyIncreasing(tsks) ==
    \A i, j \in 1..Len(tsks) : i < j => tsks[i].task_id < tsks[j].task_id

(* C30: on a service constructed with an empty list, the task_ids are       *)
(* strictly increasing along the list after every create_task, update_task  *)
(* and delete_task, and the id create_task gives is greater than every id   *)
(* that was in the list.                                                    *)
C30_CreationOrder ==
    thist.loaded = {} =>
        /\ StrictlyIncreasing(tasks)
        /\ (tlast.op = "create_task" /\ tlast.raised = "none") =>
              /\ tasks[Len(tasks)] = tlast.ret.task
              /\ \A i \in 1..Len(tlast.before) :
                    tlast.before[i].task_id < tlast.ret.task.task_id

C30_Witness ==
    /\ thist.loaded = {}
    /\ thist.deleted # {}
    /\ tlast.op = "create_task"
    /\ tlast.raised = "none"
    /\ Len(tasks) = 2
    /\ tasks[1].task_id < tasks[2].task_id

(* C29: deposit and withdraw on an account leave the set of accounts and   *)
(* every other account as they were; transfer leaves the set of accounts    *)
(* and every account it does not name as they were, and the number and      *)
(* holder of the two it names; get_account and list_all_accounts change     *)
(* neither the accounts nor the file.                                       *)
C29_FrameOfBankCalls ==
    /\ blast.op \in {"deposit", "withdraw"} =>
          /\ DOMAIN accounts = DOMAIN blast.before
          /\ \A k \in DOMAIN blast.before :
                /\ k # blast.acct => accounts[k] = blast.before[k]
                /\ accounts[k].account_number = blast.before[k].account_number
                /\ accounts[k].account_holder = blast.before[k].account_holder
    /\ blast.op = "transfer" =>
          /\ DOMAIN accounts = DOMAIN blast.before
          /\ \A k \in DOMAIN blast.before :
                /\ k \notin {blast.acct, blast.to} => accounts[k] = blast.before[k]
                /\ accounts[k].account_number = blast.before[k].account_number
                /\ accounts[k].account_holder = blast.before[k].account_holder
    /\ blast.op \in {"get_account", "list_all_accounts"} =>
          /\ accounts = blast.before
          /\ bankFile = blast.fileBefore

C29_Witness ==
    /\ blast.op = "transfer"
    /\ blast.raised = "none"
    /\ blast.acct = "ACC0001"
    /\ blast.to = "ACC0002"
    /\ accounts["ACC0001"].balance < blast.before["ACC0001"].balance
    /\ accounts["ACC0002"].balance > blast.before["ACC0002"].balance
    /\ "ACC0003" \in DOMAIN accounts
    /\ accounts["ACC0003"] = blast.before["ACC0003"]

(* C26: a deposit of amount <= 0 and a withdraw of amount <= 0 or of more  *)
(* than the balance raise nothing, leave balance and transactions as they   *)
(* were and return the balance; a valid deposit or withdraw changes the     *)
(* balance by exactly the amount, appends exactly one entry and returns the *)
(* new balance; transactions holds one entry for each valid call made so    *)
(* far, in call order.                                                      *)
C26_BankAccountLog ==
    /\ alast.op \in {"deposit", "withdraw"} =>
          LET b == alast.before.balance
              a == alast.amount
              dep == alast.op = "deposit"
              ok == IF dep THEN a > 0 ELSE 0 < a /\ a <= b
          IN  /\ alast.raised = "none"
              /\ ~ok => /\ bankAccount = alast.before
                        /\ alast.ret = b
              /\ ok => /\ bankAccount.balance = IF dep THEN b + a ELSE b - a
                       /\ Len(bankAccount.transactions) =
                             Len(alast.before.transactions) + 1
                       /\ SubSeq(bankAccount.transactions, 1,
                                 Len(alast.before.transactions)) =
                             alast.before.transactions
                       /\ alast.ret = bankAccount.balance
    /\ Len(bankAccount.transactions) = Len(alast.valid)
    /\ \A i \in 1..Len(alast.valid) :
          bankAccount.transactions[i] =
             IF alast.valid[i][1] = "deposit"
             THEN Deposited(alast.valid[i][2])
             ELSE Withdrew(alast.valid[i][2])

C26_Witness ==
    /\ alast.op = "withdraw"
    /\ alast.amount > alast.before.balance
    /\ alast.ret = alast.before.balance
    /\ bankAccount.transactions = <<"Deposited 50", "Withdrew 100">>

----------------------------------------------------------------------------
(* C24: in the SQLite task service, on whatever db_path it was constructed  *)
(* (":memory:" included), create_task does not raise, gives the task an id  *)
(* that is not None, and get_task of that id right after it returns a task  *)
(* with the title that was stored.                                          *)
C24_CreateThenGet ==
    slast.op = "create_task" =>
        /\ slast.raised = "none"
        /\ slast.ret.kind = "Task"
        /\ slast.ret.task.id # 0
        /\ LET got == sqlite_get_task(db, slast.ret.task.id)
           IN  /\ got.raised = "none"
               /\ got.ret.kind = "Task"
               /\ got.ret.task.title = slast.task.title

(* C25: in the SQLite task service, update_task_status(id, s) of an id that *)
(* has a row returns the task with status s, and get_task(id) after it      *)
(* returns status s with the created_at the row had; of an id that has no   *)
(* row it returns None and leaves every row as it was.                      *)
C25_UpdateTaskStatus ==
    slast.op = "update_task_status" =>
        LET was == sqlite_get_task(slast.before, slast.task_id)
            got == sqlite_get_task(db, slast.task_id)
        IN  IF RowIndex(slast.before.rows, slast.task_id) # 0
            THEN /\ slast.raised = "none"
                 /\ slast.ret.kind = "Task"
                 /\ slast.ret.task.status = slast.status
                 /\ got.raised = "none"
                 /\ got.ret.kind = "Task"
                 /\ got.ret.task.status = slast.status
                 /\ got.ret.task.created_at = was.ret.task.created_at
            ELSE /\ slast.raised = "none"
                 /\ slast.ret.kind = "None"
                 /\ db.rows = slast.before.rows

----------------------------------------------------------------------------
(* C22: status transitions are not enforced. Whatever status a stored task  *)
(* has, update_task_status (SQLite variant, through Task.update_status) and *)
(* update_task (JSON variant) to any status value do not raise and return   *)
(* the task with that status, which the service then holds; backward        *)
(* transitions and transitions to the same status included.                 *)
C22_TransitionsUnenforced ==
    /\ ( /\ slast.op = "update_task_status"
         /\ RowIndex(slast.before.rows, slast.task_id) # 0 )
       => /\ slast.status \in TaskStatus
          /\ slast.raised = "none"
          /\ slast.ret.kind = "Task"
          /\ slast.ret.task.status = slast.status
          /\ db.rows[RowIndex(db.rows, slast.task_id)].status = slast.status
    /\ ( /\ tlast.op = "update_task"
         /\ FirstIndex(tlast.before, tlast.task_id) # 0
         /\ tlast.fields[1] # "" /\ tlast.fields[2] # "" /\ tlast.fields[3] # ""
         /\ tlast.fields[4] \in JsonStatuses )
       => /\ tlast.raised = "none"
          /\ tlast.ret.kind = "Task"
          /\ tlast.ret.task.status = tlast.fields[4]
          /\ tasks[FirstIndex(tasks, tlast.task_id)].status = tlast.fields[4]

(* A COMPLETED row has been set back to TODO *)
C22_Witness ==
    /\ slast.op = "update_task_status"
    /\ slast.raised = "none"
    /\ RowIndex(slast.before.rows, slast.task_id) # 0
    /\ slast.before.rows[RowIndex(slast.before.rows, slast.task_id)].status = "COMPLETED"
    /\ slast.status = "TODO"
    /\ db.rows[RowIndex(db.rows, slast.task_id)].status = "TODO"

----------------------------------------------------------------------------
(* C21: identity is assigned by the store and never changes. update_task    *)
(* leaves the task_id of every task as it was; deposit, withdraw and        *)
(* transfer leave the set of account numbers and the account_number of      *)
(* every account as they were; the id create_task gives and the number      *)
(* create_account gives are computed from the stored records alone, the     *)
(* caller passing title, description and due date, resp. holder and         *)
(* balance, and nothing else.                                               *)
C21_IdentityImmutable ==
    /\ tlast.op = "update_task" =>
          /\ Len(tasks) = Len(tlast.before)
          /\ \A i \in 1..Len(tasks) : tasks[i].task_id = tlast.before[i].task_id
          /\ tlast.ret.kind = "Task" => tlast.ret.task.task_id = tlast.task_id
    /\ blast.op \in {"deposit", "withdraw", "transfer"} =>
          /\ DOMAIN accounts = DOMAIN blast.before
          /\ \A k \in DOMAIN accounts :
                /\ accounts[k].account_number = blast.before[k].account_number
                /\ accounts[k].account_number = k
    /\ (tlast.op = "create_task" /\ tlast.ret.kind = "Task") =>
          /\ Len(tlast.fields) = 3
          /\ tlast.ret.task.task_id = MaxOrDefault(TaskIdsOf(tlast.before), 0) + 1
          /\ \A i \in 1..Len(tlast.before) : tasks[i].task_id = tlast.before[i].task_id
    /\ (blast.op = "create_account" /\ ~blast.ret.none) =>
          /\ blast.ret.value.account_number = generate_account_number(blast.before)
          /\ \A k \in DOMAIN blast.before : accounts[k].account_number = k

(* update_task has rewritten the title of a task, whose id is as before *)
C21_Witness ==
    /\ tlast.op = "update_task"
    /\ tlast.ret.kind = "Task"
    /\ tlast.ret.task.title # tlast.before[FirstIndex(tlast.before, tlast.task_id)].title
    /\ tlast.ret.task.task_id = tlast.task_id

(* C23: the field maps lose nothing. For every account the service holds,   *)
(* Account.from_dict(to_dict()) has its account_number, account_holder and  *)
(* balance, and for every task of the JSON variant Task.from_dict(to_dict())*)
(* has its task_id, title, description, due_date and status.                *)
C23_RoundTripLossless ==
    /\ \A k \in DOMAIN accounts :
          LET e == accounts[k]
              r == Account_from_dict(Account_to_dict(e))
          IN  /\ r.account_number = e.account_number
              /\ r.account_holder = e.account_holder
              /\ r.balance = e.balance
    /\ \A i \in 1..Len(tasks) :
          LET t == tasks[i]
              r == Task_from_dict(Task_to_dict(t))
          IN  /\ r.task_id = t.task_id
              /\ r.title = t.title
              /\ r.description = t.description
              /\ r.due_date = t.due_date
              /\ r.status = t.status

(* A service holds an account whose holder and balance are not the defaults *)
C23_Witness ==
    /\ blast.op = "deposit"
    /\ blast.raised = "none"
    /\ \E k \in DOMAIN accounts :
          /\ accounts[k].balance > 0
          /\ accounts[k].account_holder # ""
          /\ Account_from_dict(Account_to_dict(accounts[k])) = accounts[k]

=============================================================================
